---- MODULE Spec2Model ----
(***************************************************************************)
(* Model of test-audio/generate_test_sounds.py: the unit conversions, the  *)
(* tone and pink-noise generators and the 16-bit PCM writer, driven by an  *)
(* arbitrary sequence of calls within one process.                         *)
(*                                                                         *)
(* Numbers.  A Python float is modelled by an exact decimal: a record      *)
(* [kind, neg, mag, exp] whose value is (+/-) mag / Base^exp, mag being a  *)
(* little-endian sequence of base-1000 limbs, or by the not-a-number       *)
(* value NaN.  Sums and products are exact (the rounding of IEEE doubles   *)
(* is not modelled); a quotient is kept as an exact fraction of two        *)
(* decimals.                                                               *)
(***************************************************************************)
EXTENDS Integers, Sequences, FiniteSets, TLC

\* ------------------------------------------------------------ exact decimals

Base == 10 * 10 * 10

RECURSIVE Strip(_)
\* A magnitude without its leading (most significant) zero limbs.
Strip(m) ==
    IF m = <<>> THEN <<>>
    ELSE IF m[Len(m)] = 0 THEN Strip(SubSeq(m, 1, Len(m) - 1))
    ELSE m

Limb(m, i) == IF i <= Len(m) THEN m[i] ELSE 0

\* m * Base^k
Pad(m, k) == IF m = <<>> THEN <<>> ELSE [i \in 1..k |-> 0] \o m

RECURSIVE MagAddFrom(_, _, _, _)
MagAddFrom(a, b, i, c) ==
    IF i > Len(a) /\ i > Len(b) THEN (IF c = 0 THEN <<>> ELSE <<c>>)
    ELSE LET s == Limb(a, i) + Limb(b, i) + c
         IN  <<s % Base>> \o MagAddFrom(a, b, i + 1, s \div Base)

MagAdd(a, b) == MagAddFrom(a, b, 1, 0)

RECURSIVE MagSubFrom(_, _, _, _)
\* a - b for a >= b
MagSubFrom(a, b, i, br) ==
    IF i > Len(a) THEN <<>>
    ELSE LET s == Limb(a, i) - Limb(b, i) - br
         IN  <<IF s < 0 THEN s + Base ELSE s>>
                 \o MagSubFrom(a, b, i + 1, IF s < 0 THEN 1 ELSE 0)

MagSub(a, b) == Strip(MagSubFrom(a, b, 1, 0))

RECURSIVE MagCmpAt(_, _, _)
MagCmpAt(a, b, i) ==
    IF i = 0 THEN 0
    ELSE IF a[i] < b[i] THEN -1
    ELSE IF a[i] > b[i] THEN 1
    ELSE MagCmpAt(a, b, i - 1)

\* -1, 0 or 1 as a < b, a = b, a > b (both without leading zero limbs)
MagCmp(a, b) ==
    IF Len(a) < Len(b) THEN -1
    ELSE IF Len(a) > Len(b) THEN 1
    ELSE MagCmpAt(a, b, Len(a))

RECURSIVE MagMulLimb(_, _, _, _)
MagMulLimb(a, d, i, c) ==
    IF i > Len(a) THEN (IF c = 0 THEN <<>> ELSE <<c>>)
    ELSE LET p == a[i] * d + c
         IN  <<p % Base>> \o MagMulLimb(a, d, i + 1, p \div Base)

RECURSIVE MagMulFrom(_, _, _)
MagMulFrom(a, b, j) ==
    IF j > Len(b) THEN <<>>
    ELSE MagAdd(MagMulLimb(a, b[j], 1, 0), <<0>> \o MagMulFrom(a, b, j + 1))

MagMul(a, b) == Strip(MagMulFrom(a, b, 1))

RECURSIVE Limbs(_)
\* The limbs of a natural number.
Limbs(n) == IF n = 0 THEN <<>> ELSE <<n % Base>> \o Limbs(n \div Base)

RECURSIVE MagInt(_)
\* The natural number of a magnitude (small enough to be one).
MagInt(m) == IF m = <<>> THEN 0 ELSE m[1] + Base * MagInt(Tail(m))

Zero == [kind |-> "num", neg |-> FALSE, mag |-> <<>>, exp |-> 0]

\* The float that is not a number (0.0 / 0.0).
NaN == [kind |-> "nan", neg |-> FALSE, mag |-> <<>>, exp |-> 0]

IsNaN(x) == x.kind = "nan"

RECURSIVE MkDec(_, _, _)
\* The decimal (+/-) mag / Base^exp in its one canonical form.
MkDec(neg, mag, exp) ==
    LET m == Strip(mag)
    IN  IF m = <<>> THEN Zero
        ELSE IF exp > 0 /\ m[1] = 0 THEN MkDec(neg, Tail(m), exp - 1)
        ELSE [kind |-> "num", neg |-> neg, mag |-> m, exp |-> exp]

FromInt(n) == MkDec(n < 0, Limbs(IF n < 0 THEN -n ELSE n), 0)

\* k / 1000
Milli(k) == MkDec(k < 0, Limbs(IF k < 0 THEN -k ELSE k), 1)

\* The literal (+/-) ip.aaabbbccc with nine decimals, as the source writes it.
Dec9(neg, ip, aaa, bbb, ccc) == MkDec(neg, <<ccc, bbb, aaa, ip>>, 3)

One == FromInt(1)

IsZero(x) == x.kind = "num" /\ x.mag = <<>>

DecNeg(x) == IF x.mag = <<>> THEN x ELSE [x EXCEPT !.neg = ~x.neg]

DecAbs(x) == [x EXCEPT !.neg = FALSE]

DecAdd(x, y) ==
    LET e  == IF x.exp > y.exp THEN x.exp ELSE y.exp
        ax == Pad(x.mag, e - x.exp)
        ay == Pad(y.mag, e - y.exp)
    IN  IF x.neg = y.neg THEN MkDec(x.neg, MagAdd(ax, ay), e)
        ELSE IF MagCmp(ax, ay) >= 0 THEN MkDec(x.neg, MagSub(ax, ay), e)
        ELSE MkDec(y.neg, MagSub(ay, ax), e)

DecSub(x, y) == DecAdd(x, DecNeg(y))

DecMul(x, y) == MkDec(x.neg # y.neg, MagMul(x.mag, y.mag), x.exp + y.exp)

\* -1, 0 or 1 as x < y, x = y, x > y
DecCmp(x, y) ==
    LET d == DecSub(x, y)
    IN  IF d.mag = <<>> THEN 0 ELSE IF d.neg THEN -1 ELSE 1

\* The integer part of a decimal (toward zero), as an integer.
DecTrunc(x) ==
    LET n == MagInt(IF x.exp >= Len(x.mag) THEN <<>>
                    ELSE SubSeq(x.mag, x.exp + 1, Len(x.mag)))
    IN  IF x.neg THEN -n ELSE n

\* ------------------------------------------------------------ exact quotients

\* The quotient x / y of two floats as NumPy's true division gives it: an exact
\* fraction num/den with den > 0, not-a-number for 0/0, an infinity for x/0.
Quot(x, y) ==
    IF IsNaN(x) \/ IsNaN(y) THEN [kind |-> "nan", num |-> Zero, den |-> Zero]
    ELSE IF IsZero(y)
         THEN IF IsZero(x) THEN [kind |-> "nan", num |-> Zero, den |-> Zero]
              ELSE [kind |-> "inf", num |-> IF x.neg THEN DecNeg(One) ELSE One,
                    den |-> Zero]
    ELSE IF y.neg THEN [kind |-> "num", num |-> DecNeg(x), den |-> DecNeg(y)]
    ELSE [kind |-> "num", num |-> x, den |-> y]

\* q * a for a quotient q and a float a.
QuotTimes(q, a) ==
    IF q.kind = "nan" \/ IsNaN(a) THEN [kind |-> "nan", num |-> Zero, den |-> Zero]
    ELSE IF q.kind = "inf"
         THEN IF IsZero(a) THEN [kind |-> "nan", num |-> Zero, den |-> Zero]
              ELSE [q EXCEPT !.num = DecMul(q.num, IF a.neg THEN DecNeg(One) ELSE One)]
    ELSE [q EXCEPT !.num = DecMul(q.num, a)]

\* ------------------------------------------------------------ unit conversions

RECURSIVE TenTo(_)
TenTo(k) == IF k = 0 THEN 1 ELSE 10 * TenTo(k - 1)

\* 10.0 ** k for an integer k.
Pow10(k) ==
    IF k >= 0 THEN FromInt(TenTo(k))
    ELSE LET e == (2 - k) \div 3
         IN  MkDec(FALSE, Limbs(TenTo(3 * e + k)), e)

\* 10.0 ** (db / 20.0), for the db (whole multiples of 20) whose amplitude is
\* an exact decimal.
db_to_linear(db) == Pow10(db \div 20)

\* sqrt(10.0 ** ((lufs + 0.691) / 10.0)), for the lufs whose mean square is an
\* even power of ten.
lufs_to_rms(lufs) ==
    LET ms_exp == DecTrunc(DecAdd(lufs, Milli(691))) \div 10
    IN  Pow10(ms_exp \div 2)

\* ------------------------------------------------------------ PCM writer

SAMPLE_RATE == 44100

FullScale == 32767

\* Mutant of clip: the clip left out.
clip_none(x, lo, hi) == x

\* np.clip(x, lo, hi) of one sample: minimum(maximum(x, lo), hi); NaN stays NaN.
clip(x, lo, hi) ==
    IF IsNaN(x) THEN x
    ELSE IF DecCmp(x, lo) < 0 THEN lo
    ELSE IF DecCmp(x, hi) > 0 THEN hi
    ELSE x

\* data * 32767 of one sample.
scale(x) == IF IsNaN(x) THEN x ELSE DecMul(x, FromInt(FullScale))

Wrap16(n) == ((n + 2^15) % 2^16) - 2^15

\* What a float-to-int16 cast of a value int16 cannot hold may give: the C
\* conversion is undefined there.
CastUndefined == {-(2^15), 0}

\* Mutant of astype_int16: round to nearest, halves away from zero.
astype_int16_round(x) ==
    IF IsNaN(x) THEN CastUndefined
    ELSE LET n == DecTrunc(DecAdd(x, IF x.neg THEN Milli(-500) ELSE Milli(500)))
         IN  IF -(2^15) <= n /\ n < 2^15 THEN {n}
             ELSE {Wrap16(n)} \cup CastUndefined

\* Mutant of astype_int16: round toward minus infinity.
astype_int16_floor(x) ==
    IF IsNaN(x) THEN CastUndefined
    ELSE LET t == DecTrunc(x)
             n == IF x.neg /\ FromInt(t) # x THEN t - 1 ELSE t
         IN  IF -(2^15) <= n /\ n < 2^15 THEN {n}
             ELSE {Wrap16(n)} \cup CastUndefined

\* The values .astype(np.int16) may give for one float: the value truncated
\* toward zero when int16 holds it.
astype_int16(x) ==
    IF IsNaN(x) THEN CastUndefined
    ELSE LET n == DecTrunc(x)
         IN  IF -(2^15) <= n /\ n < 2^15 THEN {n}
             ELSE {Wrap16(n)} \cup CastUndefined

\* The int16 arrays the clip, the scaling and the cast may give for one row.
RECURSIVE quantize(_)
quantize(row) ==
    IF row = <<>> THEN {<<>>}
    ELSE LET heads == astype_int16(scale(clip(row[1], FromInt(-1), One)))
             tails == quantize(Tail(row))
         IN  {<<h>> \o t : h \in heads, t \in tails}

\* Mutant of interleave: the channels one after the other.
interleave_planar(left, right) == left \o right

\* interleaved[0::2] = left; interleaved[1::2] = right
interleave(left, right) ==
    [i \in 1..(2 * Len(left)) |->
        IF i % 2 = 1 THEN left[(i + 1) \div 2] ELSE right[i \div 2]]

\* The two bytes of an int16, little-endian two's complement.
int16_bytes(v) ==
    LET u == IF v < 0 THEN v + 2^16 ELSE v
    IN  <<u % 256, u \div 256>>

RECURSIVE tobytes(_)
tobytes(ints) ==
    IF ints = <<>> THEN <<>> ELSE int16_bytes(ints[1]) \o tobytes(Tail(ints))

\* os.path.dirname of a path, a path being its sequence of components.
dirname(path) == SubSeq(path, 1, Len(path) - 1)

\* Mutant of makedirs: no directory is made.
makedirs_none(fs, d) == [raised |-> FALSE, fs |-> fs]

\* os.makedirs(d, exist_ok=True) on the filesystem fs; '.' (the empty path)
\* always exists.
makedirs(fs, d) ==
    IF \E k \in 1..Len(d) : SubSeq(d, 1, k) \in fs.files
    THEN [raised |-> TRUE, fs |-> fs]
    ELSE [raised |-> FALSE,
          fs |-> [fs EXCEPT !.dirs = @ \cup {SubSeq(d, 1, k) : k \in 1..Len(d)}]]

\* write_wav(filename, data, sample_rate) with the cast's outcome data_int (one
\* int16 row per row of data): the call's outcome and the filesystem after it.
write_wav(fs, filename, data, sample_rate, data_int) ==
    LET made       == makedirs(fs, dirname(filename))
        n_channels == IF Len(data.shape) > 1 THEN 2 ELSE 1
        stream     == IF n_channels = 2
                      THEN interleave(data_int[1], data_int[2])
                      ELSE data_int[1]
        created    == [made.fs EXCEPT !.files = @ \cup {filename}]
    IN  IF made.raised
        THEN [status |-> "raised", value |-> "OSError", fs |-> fs]
        ELSE IF filename \in made.fs.dirs
        THEN [status |-> "raised", value |-> "IsADirectoryError", fs |-> made.fs]
        ELSE IF dirname(filename) # <<>> /\ dirname(filename) \notin made.fs.dirs
        THEN [status |-> "raised", value |-> "FileNotFoundError", fs |-> made.fs]
        ELSE IF sample_rate <= 0
        THEN [status |-> "raised", value |-> "wave.Error", fs |-> created]
        ELSE [status |-> "returned",
              value  |-> [nchannels |-> n_channels,
                          sampwidth |-> 2,
                          framerate |-> sample_rate,
                          nframes   |-> Len(stream) \div n_channels,
                          frames    |-> tobytes(stream)],
              fs     |-> created]

\* ------------------------------------------------------------ generators

\* int(sample_rate * duration): the product truncated toward zero.
num_samples(sample_rate, duration) == DecTrunc(DecMul(FromInt(sample_rate), duration))

\* np.linspace(0, duration, num, endpoint=False): step = duration / num and
\* t[i] = i * step (i from 0; the sequence is indexed from 1).
linspace(duration, num) ==
    [i \in 1..num |-> QuotTimes(Quot(duration, FromInt(num)), FromInt(i - 1))]

\* generate_sine_tone: the sample amplitude * sin(2 pi freq t) is kept as its
\* three arguments [amp, freq, t]; the sine itself is not evaluated.
generate_sine_tone(freq, amplitude, duration, sample_rate) ==
    LET num == num_samples(sample_rate, duration)
        t   == linspace(duration, num)
    IN  IF num < 0
        THEN [status |-> "raised", value |-> "ValueError", locals |-> <<>>]
        ELSE [status |-> "returned",
              value  |-> [i \in 1..num |->
                            [amp |-> amplitude, freq |-> freq, t |-> t[i]]],
              locals |-> [t |-> t]]

pink_b ==
    << Dec9(FALSE, 0, 049, 922, 035), Dec9(TRUE, 0, 095, 993, 537),
       Dec9(FALSE, 0, 050, 612, 699), Dec9(TRUE, 0, 004, 408, 786) >>

pink_a ==
    << One, Dec9(TRUE, 2, 494, 956, 002),
       Dec9(FALSE, 2, 017, 265, 875), Dec9(TRUE, 0, 522, 189, 400) >>

\* One step of the pink filter: pink[i] of the source is pink[j] here, j = i + 1.
pink_step(white, pink, j) ==
    LET ff == DecAdd(DecAdd(DecMul(pink_b[1], white[j]),
                            DecMul(pink_b[2], white[j - 1])),
                     DecAdd(DecMul(pink_b[3], white[j - 2]),
                            DecMul(pink_b[4], white[j - 3])))
    IN  DecSub(DecSub(DecSub(ff, DecMul(pink_a[2], pink[j - 1])),
                      DecMul(pink_a[3], pink[j - 2])),
               DecMul(pink_a[4], pink[j - 3]))

RECURSIVE pink_loop(_, _, _)
\* for i in range(3, num_samples): pink[i] = ...
pink_loop(white, pink, j) ==
    IF j > Len(white) THEN pink
    ELSE pink_loop(white, [pink EXCEPT ![j] = pink_step(white, pink, j)], j + 1)

\* The filtered buffer: np.zeros(num_samples), then the loop from index 3.
pink_filter(white) == pink_loop(white, [j \in 1..Len(white) |-> Zero], 4)

RECURSIVE max_plain(_)
\* Mutant of max_abs: np.max(x), the absolute value left out.
max_plain(x) ==
    IF Len(x) = 1 THEN x[1]
    ELSE LET m == max_plain(Tail(x))
         IN  IF DecCmp(x[1], m) > 0 THEN x[1] ELSE m

RECURSIVE max_abs(_)
\* np.max(np.abs(x)) of a non-empty array.
max_abs(x) ==
    IF Len(x) = 1 THEN DecAbs(x[1])
    ELSE LET m == max_abs(Tail(x))
         IN  IF DecCmp(DecAbs(x[1]), m) > 0 THEN DecAbs(x[1]) ELSE m

\* pink / np.max(np.abs(pink)) * amplitude
normalize(pink, amplitude) ==
    LET m == max_abs(pink)
    IN  [j \in 1..Len(pink) |-> QuotTimes(Quot(pink[j], m), amplitude)]

\* Mutant of randn: the generator restarts its stream at every call.
randn_restart(g, n) == [g EXCEPT !.pos = n]

\* The generator after np.random.randn(n) has taken n draws.
randn(g, n) == [g EXCEPT !.pos = @ + n]

\* generate_pink_noise once np.random.randn has given white (num_samples >= 0
\* values): np.max of an empty array raises.
generate_pink_noise(amplitude, white) ==
    LET pink == pink_filter(white)
    IN  IF Len(white) = 0
        THEN [status |-> "raised", value |-> "ValueError",
              locals |-> [white |-> white, pink |-> pink]]
        ELSE [status |-> "returned", value |-> normalize(pink, amplitude),
              locals |-> [white |-> white, pink |-> pink]]

\* ------------------------------------------------------------ the process

VARIABLES
    call,   \* the call in progress or the last one made: [op, args, status, value, locals]
    fs,     \* the filesystem: [dirs, files], the paths that exist as each
    rng,    \* np.random's global generator: [pos], the draws taken from its stream
    hist    \* history: the range of draws [first, n] of each generate_pink_noise that returned

vars == <<call, fs, rng, hist>>

\* The most draws a run takes from the random stream.
MaxDraws == 5

\* The most samples an array given to write_wav holds.
MaxSamples == 4

\* np.array(row) and np.array([left, right]) as main builds them.
Mono(row) == [shape |-> <<Len(row)>>, rows |-> <<row>>]

Stereo(left, right) == [shape |-> <<2, Len(left)>>, rows |-> <<left, right>>]

\* -x of every sample, as in np.array([tone_1k, -tone_1k]).
Negated(row) == [i \in 1..Len(row) |-> IF IsNaN(row[i]) THEN row[i] ELSE DecNeg(row[i])]

\* The standard-normal values a draw may give.
WhiteVals == {FromInt(-1), Zero, One}

\* Sample values: inside, on and beyond full scale, and not-a-number.
SampleVals == {Milli(-1500), FromInt(-1), Milli(-500), Zero, Milli(500), One, Milli(1500), NaN}

EncodeSignals ==
    {Mono(row) : row \in UNION {[1..n -> SampleVals] : n \in 0..MaxSamples}}
    \cup UNION {{Stereo(l, r) : l, r \in [1..n -> SampleVals]} : n \in 0..(MaxSamples \div 2)}

GenRates == {-2, 0, 1, 2, 3, 4}

GenDurations == {Milli(-1000), Milli(-500), Zero, Milli(500), One, Milli(1250), Milli(1500)}

GenFreqs == {FromInt(-1), Zero, One}

GenAmplitudes == {Milli(-500), Zero, Milli(500)}

Pending(op, args) ==
    [op |-> op, args |-> args, status |-> "called", value |-> <<>>, locals |-> <<>>]

ToneCalls(freqs, amplitudes, durations, rates) ==
    {Pending("generate_sine_tone",
             [freq |-> f, amplitude |-> a, duration |-> d, sample_rate |-> r]) :
        f \in freqs, a \in amplitudes, d \in durations, r \in rates}

NoiseCalls(amplitudes, durations, rates) ==
    {Pending("generate_pink_noise",
             [amplitude |-> a, duration |-> d, sample_rate |-> r]) :
        a \in amplitudes, d \in durations, r \in rates}

WriteCalls(filenames, signals, rates) ==
    {Pending("write_wav", [filename |-> f, data |-> d, sample_rate |-> r]) :
        f \in filenames, d \in signals, r \in rates}

\* The calls the driver makes: a few of each operation.
DriverCalls ==
    {Pending("db_to_linear", [db |-> d]) : d \in {-20, 0}}
    \cup {Pending("lufs_to_rms", [lufs |-> Milli(-20691)])}
    \cup ToneCalls({One}, {Milli(500)}, {Zero, One, Milli(1250)}, {2})
    \cup NoiseCalls({Milli(500)}, {Milli(-1000), Milli(500), One}, {1, 2, 4})
    \cup WriteCalls({<<"a.wav">>, <<"output">>, <<"output", "a.wav">>,
                     <<"output", "sub", "a.wav">>},
                    {Mono(<<Milli(500)>>),
                     Stereo(<<Milli(500), Milli(-1500)>>, <<Milli(-500), Milli(1500)>>)},
                    {SAMPLE_RATE})
    \cup WriteCalls({<<"a.wav">>}, {Mono(<<Milli(500)>>)}, {0})

\* A call fits the run when the draws it takes stay within MaxDraws.
Fits(c) ==
    c.op = "generate_pink_noise" =>
        rng.pos + num_samples(c.args.sample_rate, c.args.duration) <= MaxDraws

Idle == [op |-> "none", args |-> <<>>, status |-> "returned", value |-> <<>>, locals |-> <<>>]

NoFiles == [dirs |-> {}, files |-> {}]

Init ==
    /\ call = Idle
    /\ fs = NoFiles
    /\ rng = [pos |-> 0]
    /\ hist = <<>>

\* The driver makes its next call once the last one has ended.
Invoke ==
    /\ call.status # "called"
    /\ \E c \in DriverCalls : Fits(c) /\ call' = c
    /\ UNCHANGED <<fs, rng, hist>>

\* main: os.makedirs(output_dir, exist_ok=True)
MainMakedirs ==
    /\ call.status # "called"
    /\ LET made == makedirs(fs, <<"output">>)
       IN  /\ fs' = made.fs
           /\ call' = [op |-> "makedirs", args |-> [name |-> <<"output">>],
                       status |-> IF made.raised THEN "raised" ELSE "returned",
                       value |-> <<>>, locals |-> <<>>]
    /\ UNCHANGED <<rng, hist>>

DoDbToLinear ==
    /\ call.op = "db_to_linear" /\ call.status = "called"
    /\ call' = [call EXCEPT !.status = "returned", !.value = db_to_linear(call.args.db)]
    /\ UNCHANGED <<fs, rng, hist>>

DoLufsToRms ==
    /\ call.op = "lufs_to_rms" /\ call.status = "called"
    /\ call' = [call EXCEPT !.status = "returned", !.value = lufs_to_rms(call.args.lufs)]
    /\ UNCHANGED <<fs, rng, hist>>

DoSineTone ==
    /\ call.op = "generate_sine_tone" /\ call.status = "called"
    /\ \E r \in {generate_sine_tone(call.args.freq, call.args.amplitude,
                                     call.args.duration, call.args.sample_rate)} :
         call' = [call EXCEPT !.status = r.status, !.value = r.value,
                              !.locals = r.locals]
    /\ UNCHANGED <<fs, rng, hist>>

\* generate_pink_noise: np.random.randn(num_samples) raises for a negative
\* count and otherwise takes num_samples draws from the stream.
DoPinkNoise ==
    /\ call.op = "generate_pink_noise" /\ call.status = "called"
    /\ LET n == num_samples(call.args.sample_rate, call.args.duration)
       IN  IF n < 0
           THEN /\ call' = [call EXCEPT !.status = "raised", !.value = "ValueError"]
                /\ UNCHANGED <<rng, hist>>
           ELSE \E white \in [1..n -> WhiteVals] :
                  \E r \in {generate_pink_noise(call.args.amplitude, white)} :
                      /\ call' = [call EXCEPT !.status = r.status, !.value = r.value,
                                              !.locals = r.locals]
                      /\ rng' = randn(rng, n)
                      /\ hist' = IF r.status = "returned"
                                 THEN Append(hist, [first |-> rng.pos, n |-> n])
                                 ELSE hist
    /\ UNCHANGED fs

DoWriteWav ==
    /\ call.op = "write_wav" /\ call.status = "called"
    /\ \E data_int \in
           IF Len(call.args.data.shape) > 1
           THEN {<<l, r>> : l \in quantize(call.args.data.rows[1]),
                            r \in quantize(call.args.data.rows[2])}
           ELSE {<<m>> : m \in quantize(call.args.data.rows[1])} :
         \E r \in {write_wav(fs, call.args.filename, call.args.data,
                             call.args.sample_rate, data_int)} :
             /\ call' = [call EXCEPT !.status = r.status, !.value = r.value]
             /\ fs' = r.fs
    /\ UNCHANGED <<rng, hist>>

Next ==
    \/ Invoke
    \/ MainMakedirs
    \/ DoDbToLinear
    \/ DoLufsToRms
    \/ DoSineTone
    \/ DoPinkNoise
    \/ DoWriteWav

Spec == Init /\ [][Next]_vars

\* write_wav alone, applied to every signal of EncodeSignals.
InitEncode ==
    /\ call \in WriteCalls({<<"output", "a.wav">>}, EncodeSignals, {SAMPLE_RATE})
    /\ fs = NoFiles
    /\ rng = [pos |-> 0]
    /\ hist = <<>>

NextEncode == DoWriteWav

SpecEncode == InitEncode /\ [][NextEncode]_vars

\* The two generators alone, applied to every combination of parameters.
InitGen ==
    /\ fs = NoFiles
    /\ rng = [pos |-> 0]
    /\ hist = <<>>
    /\ call \in ToneCalls(GenFreqs, GenAmplitudes, GenDurations, GenRates)
                \cup NoiseCalls(GenAmplitudes, GenDurations, GenRates)
    /\ Fits(call)

NextGen == DoSineTone \/ DoPinkNoise

SpecGen == InitGen /\ [][NextGen]_vars

\* ------------------------------------------------------------ what write_wav wrote

RECURSIVE FromBytes(_)
\* The signed 16-bit integers a little-endian byte stream decodes to.
FromBytes(bytes) ==
    IF bytes = <<>> THEN <<>>
    ELSE LET u == bytes[1] + 256 * bytes[2]
         IN  <<IF u >= 2^15 THEN u - 2^16 ELSE u>> \o FromBytes(SubSeq(bytes, 3, Len(bytes)))

WavReturned == call.op = "write_wav" /\ call.status = "returned"

WrittenInts == FromBytes(call.value.frames)

IsStereo == Len(call.args.data.shape) > 1

Left == call.args.data.rows[1]

Right == call.args.data.rows[2]

\* The sample of the input signal that position p (from 1) of the stream holds:
\* Left[i] at 2i and Right[i] at 2i+1 counting from 0, sample i for mono.
SourceSample(p) ==
    IF IsStereo THEN (IF p % 2 = 1 THEN Left[(p + 1) \div 2] ELSE Right[p \div 2])
    ELSE Left[p]

IsFinite(x) == x.kind = "num"

AllFinite(row) == \A i \in 1..Len(row) : IsFinite(row[i])

\* The thousandths of a sample of SampleVals.
MilliOf(x) == DecTrunc(DecMul(x, FromInt(1000)))

\* trunc(clip(k/1000, -1, 1) * 32767) in integer arithmetic.
TruncQuantized(k) ==
    LET c == IF k < -1000 THEN -1000 ELSE IF k > 1000 THEN 1000 ELSE k
        p == c * 32767
    IN  IF p >= 0 THEN p \div 1000 ELSE -((-p) \div 1000)

\* The values the model's quantization chain may give for one sample.
QuantizedOf(x) == astype_int16(scale(clip(x, FromInt(-1), One)))

\* C1: write_wav neither drops, pads nor reorders samples: a mono signal of
\* length N gives exactly N integers, position i holding the quantized sample
\* i; a stereo signal gives exactly 2N integers, position 2i holding the
\* quantized Left[i] and position 2i+1 the quantized Right[i] (from 0).
C1_StreamLayout ==
    WavReturned =>
        LET N == Len(Left)
            W == WrittenInts
        IN  IF IsStereo
            THEN /\ Len(W) = 2 * N
                 /\ call.value.nchannels = 2 /\ call.value.nframes = N
                 /\ \A i \in 0..(N - 1) :
                        /\ W[2 * i + 1] \in QuantizedOf(Left[i + 1])
                        /\ W[2 * i + 2] \in QuantizedOf(Right[i + 1])
            ELSE /\ Len(W) = N
                 /\ call.value.nchannels = 1 /\ call.value.nframes = N
                 /\ \A i \in 0..(N - 1) : W[i + 1] \in QuantizedOf(Left[i + 1])

\* A stereo signal of two frames whose four samples quantize to four different
\* integers has been written.
C1_Witness ==
    /\ WavReturned /\ IsStereo /\ Len(Left) = 2
    /\ AllFinite(Left) /\ AllFinite(Right)
    /\ Cardinality({WrittenInts[p] : p \in 1..4}) = 4

\* C2: for every finite sample, also outside [-1, 1] and at exactly 1.0 and
\* -1.0, the integer written lies in [-32767, 32767] and never has the sign
\* opposite to the sample's.
C2_NoOverflow ==
    WavReturned =>
        \A p \in 1..Len(WrittenInts) :
            LET x == SourceSample(p)
                w == WrittenInts[p]
            IN  IsFinite(x) =>
                    /\ -32767 <= w /\ w <= 32767
                    /\ (DecCmp(x, Zero) > 0 => w >= 0)
                    /\ (DecCmp(x, Zero) < 0 => w <= 0)

\* Samples beyond full scale on both sides and at exactly 1.0 and -1.0 have
\* been written, as plus and minus 32767.
C2_Witness ==
    /\ WavReturned
    /\ \A x \in {Milli(1500), One} :
           \E p \in 1..Len(WrittenInts) : SourceSample(p) = x /\ WrittenInts[p] = 32767
    /\ \A x \in {Milli(-1500), FromInt(-1)} :
           \E p \in 1..Len(WrittenInts) : SourceSample(p) = x /\ WrittenInts[p] = -32767

\* C3: every integer written is clip(sample, -1, 1) * 32767 truncated toward
\* zero (not rounded to nearest), for every sample of every channel; decoding
\* the bytes written recovers exactly that integer, so that the integers are a
\* function of the signal alone.
C3_TruncatedQuantization ==
    WavReturned =>
        /\ Len(call.value.frames) = 2 * Len(WrittenInts)
        /\ \A p \in 1..Len(WrittenInts) :
               IsFinite(SourceSample(p)) =>
                   WrittenInts[p] = TruncQuantized(MilliOf(SourceSample(p)))

\* Half of full scale has been written on both sides: 16383.5 truncated to
\* 16383 and -16383.5 to -16383.
C3_Witness ==
    /\ WavReturned
    /\ \E p \in 1..Len(WrittenInts) :
           SourceSample(p) = Milli(500) /\ WrittenInts[p] = 16383
    /\ \E p \in 1..Len(WrittenInts) :
           SourceSample(p) = Milli(-500) /\ WrittenInts[p] = -16383

\* C10: for every stereo signal with Right[i] = -Left[i] for all i, all
\* finite, the integers written satisfy quantized Right[i] = -quantized Left[i].
C10_InvertSurvivesEncoding ==
    (WavReturned /\ IsStereo /\ AllFinite(Left) /\ Right = Negated(Left)) =>
        \A i \in 1..Len(Left) : WrittenInts[2 * i] = -WrittenInts[2 * i - 1]

\* An inverted pair with a sample beyond full scale and one that does not
\* quantize to a whole number has been written.
C10_Witness ==
    /\ WavReturned /\ IsStereo /\ Right = Negated(Left)
    /\ Left = <<Milli(1500), Milli(-500)>>
    /\ WrittenInts = <<32767, -32767, -16383, 16383>>

\* ------------------------------------------------------------ what the generators returned

ToneDone == call.op = "generate_sine_tone" /\ call.status # "called"

NoiseDone == call.op = "generate_pink_noise" /\ call.status # "called"

NoiseReturned == call.op = "generate_pink_noise" /\ call.status = "returned"

\* floor(sample_rate * duration) in integer arithmetic, the duration in thousandths.
FloorProduct(sample_rate, duration) == (sample_rate * MilliOf(duration)) \div 1000

Positive(x) == DecCmp(x, Zero) > 0

AllZero(buffer) == \A j \in 1..Len(buffer) : IsZero(buffer[j])

\* C4 (the claim as stated): whenever the filtered buffer is entirely zero
\* (every call with N <= 3 among them; duration and sample rate > 0),
\* generate_pink_noise surfaces the zero divisor and never returns a signal
\* holding a not-a-number or infinite sample.
C4_DegenerateSurfaced ==
    (NoiseReturned /\ Positive(call.args.duration) /\ call.args.sample_rate > 0
        /\ AllZero(call.locals.pink)) =>
        \A j \in 1..Len(call.value) : call.value[j].kind = "num"

\* C5 (the claim as stated): a call of generate_sine_tone or
\* generate_pink_noise with a non-positive duration, a non-positive sample
\* rate or (the tone) a non-positive frequency fails and returns no signal.
C5_InvalidParameterFails ==
    ((ToneDone \/ NoiseDone)
        /\ (\/ ~Positive(call.args.duration)
            \/ call.args.sample_rate <= 0
            \/ (ToneDone /\ ~Positive(call.args.freq)))) =>
        call.status = "raised"

\* C6: for every non-degenerate draw (the filtered buffer has a non-zero
\* sample) and every amplitude >= 0, the signal generate_pink_noise returns has
\* peak absolute value exactly amplitude: |out[i]| <= amplitude for every i,
\* with equality for some i.
C6_PeakEqualsAmplitude ==
    (NoiseReturned /\ ~AllZero(call.locals.pink) /\ ~call.args.amplitude.neg) =>
        LET A   == call.args.amplitude
            out == call.value
        IN  /\ \A j \in 1..Len(out) :
                   /\ out[j].kind = "num"
                   /\ DecCmp(DecAbs(out[j].num), DecMul(A, out[j].den)) <= 0
            /\ \E j \in 1..Len(out) :
                   /\ out[j].kind = "num"
                   /\ DecCmp(DecAbs(out[j].num), DecMul(A, out[j].den)) = 0

\* A noise of five samples at amplitude 0.5 whose two filtered samples differ
\* in magnitude, the peak being a negative sample, has been returned.
C6_Witness ==
    /\ NoiseReturned /\ Len(call.value) = 5 /\ call.args.amplitude = Milli(500)
    /\ \E j, k \in 4..5 :
           /\ call.locals.pink[j].neg
           /\ DecCmp(DecAbs(call.locals.pink[j]), DecAbs(call.locals.pink[k])) > 0
           /\ ~IsZero(call.locals.pink[k])
           /\ DecCmp(DecAbs(call.value[j].num), DecMul(Milli(500), call.value[j].den)) = 0

\* C8 (the claim as stated): for every frequency, duration and sample rate
\* > 0, also when sample_rate * duration is no integer, generate_sine_tone
\* returns exactly N = floor(sample_rate * duration) samples, sample i taken at
\* t_i = i / sample_rate, so that no timestamp reaches the duration.
C8_ToneTimestamps ==
    (ToneDone /\ Positive(call.args.freq) /\ Positive(call.args.duration)
        /\ call.args.sample_rate > 0) =>
        /\ call.status = "returned"
        /\ Len(call.value) = FloorProduct(call.args.sample_rate, call.args.duration)
        /\ \A i \in 1..Len(call.value) :
               LET t == call.locals.t[i]
               IN  /\ t.kind = "num"
                   /\ DecMul(t.num, FromInt(call.args.sample_rate))
                          = DecMul(FromInt(i - 1), t.den)
                   /\ DecCmp(t.num, DecMul(call.args.duration, t.den)) < 0

\* ------------------------------------------------------------ what a call changed

\* The step in which write_wav runs.
WriteStep == call.op = "write_wav" /\ call.status = "called" /\ call'.status # "called"

\* The step in which generate_pink_noise runs.
NoiseStep ==
    call.op = "generate_pink_noise" /\ call.status = "called" /\ call'.status # "called"

\* The destination directory of the pending write_wav and its ancestors.
DestinationDirs ==
    {SubSeq(call.args.filename, 1, k) : k \in 1..(Len(call.args.filename) - 1)}

\* C7 (the claim as stated): write_wav never creates a directory: when the
\* destination directory does not exist the directories are unchanged by the
\* call and the write fails.
C7_NeverCreatesDirectory ==
    [][WriteStep =>
          /\ fs'.dirs = fs.dirs
          /\ (~(DestinationDirs \subseteq fs.dirs) => call'.status = "raised")]_vars

\* C7 (amended): write_wav itself creates the destination directory: when no
\* component of it is a regular file, the call adds the destination directory
\* and its missing ancestors, adds no other directory and removes none, and the
\* write never fails for a missing directory; when the directory exists the
\* directories are unchanged; a call that returns leaves the file in its
\* directory.
C7_CreatesDestinationDirectory ==
    [][WriteStep =>
          /\ fs.dirs \subseteq fs'.dirs
          /\ fs'.dirs \subseteq fs.dirs \cup DestinationDirs
          /\ (DestinationDirs \cap fs.files = {} => DestinationDirs \subseteq fs'.dirs)
          /\ (call'.status = "raised" =>
                 call'.value \in {"OSError", "IsADirectoryError", "wave.Error"})
          /\ (call'.status = "returned" =>
                 /\ DestinationDirs \subseteq fs'.dirs
                 /\ call.args.filename \in fs'.files)]_vars

\* write_wav has returned from writing into output/sub, a directory that only
\* write_wav makes.
C7_Witness ==
    /\ WavReturned /\ call.args.filename = <<"output", "sub", "a.wav">>
    /\ <<"output", "sub">> \in fs.dirs
    /\ <<"output", "sub", "a.wav">> \in fs.files

\* The ranges of draws in the history follow one another from the first draw on.
Consecutive(h) ==
    /\ Len(h) > 0 => h[1].first = 0
    /\ \A k \in 1..(Len(h) - 1) : h[k + 1].first = h[k].first + h[k].n

\* C9 (the claim as stated): the random source is advanced only by
\* generate_pink_noise, and each such call (duration and sample rate > 0)
\* consumes exactly N = floor(sample_rate * duration) draws and returns N
\* samples.
C9_EachNoiseCallReturnsN ==
    [][/\ (rng' # rng => NoiseStep)
       /\ (NoiseStep /\ Positive(call.args.duration) /\ call.args.sample_rate > 0) =>
              LET N == FloorProduct(call.args.sample_rate, call.args.duration)
              IN  /\ call'.status = "returned"
                  /\ Len(call'.value) = N
                  /\ rng'.pos = rng.pos + N]_vars

\* C9 (amended): the random source is advanced only by generate_pink_noise;
\* each such call that returns has N = floor(sample_rate * duration) >= 1, has
\* consumed exactly N draws and returns N samples; a call that raises (N <= 0)
\* takes no draw; db_to_linear, lufs_to_rms, generate_sine_tone and write_wav
\* leave the random source unchanged.  Consequently the calls that return are
\* built from disjoint, consecutive ranges of draws.
C9_NoiseDraws ==
    [][/\ (rng' # rng => NoiseStep /\ call'.status = "returned")
       /\ (~NoiseStep => hist' = hist)
       /\ NoiseStep =>
              LET N == FloorProduct(call.args.sample_rate, call.args.duration)
              IN  /\ call'.status = "returned" =>
                         /\ N >= 1
                         /\ Len(call'.value) = N
                         /\ Len(call'.locals.white) = N
                         /\ rng'.pos = rng.pos + N
                         /\ hist' = Append(hist, [first |-> rng.pos, n |-> N])
                  /\ call'.status = "raised" =>
                         /\ N <= 0
                         /\ rng' = rng
                         /\ hist' = hist
       /\ Consecutive(hist')
       /\ (Len(hist') > 0 => rng'.pos = hist'[Len(hist')].first + hist'[Len(hist')].n)]_vars

\* Two calls of generate_pink_noise have returned, the second built from the
\* draws that follow the first call's.
C9_Witness ==
    /\ NoiseReturned /\ Len(hist) = 2
    /\ hist[1].n >= 2
    /\ hist[2].first = hist[1].n
    /\ Len(call.value) = hist[2].n
    /\ rng.pos = hist[1].n + hist[2].n

====
